---- MODULE Spec2Model ----
(***************************************************************************)
(* MIME sniffing and processor dispatch of the thumbnailer package         *)
(* (mimes.go): the ordered matcher registry, the four kinds of matcher,    *)
(* detectMimeType, RegisterMatcher, RegisterProcessor and processFile.     *)
(*                                                                         *)
(* Bytes are integers 0..255, a []byte is a sequence of them.  Go indexes  *)
(* from 0 and TLA+ from 1: data[i] of the source is data[i+1] here and     *)
(* data[lo:hi] is SubSeq(data, lo+1, hi).                                  *)
(***************************************************************************)
EXTENDS Integers, Sequences, FiniteSets, TLC

VARIABLES matchers,        \* var matchers []Matcher
          mimeProcessors,  \* var mimeProcessors map[string]Processor
          regLog,          \* history: the RegisterProcessor calls made so far
          pc,              \* "ready" or "returned" (a call's results are live)
          op,              \* the call that has returned, "none" if none
          call,            \* its arguments
          ret              \* its results

vars == <<matchers, mimeProcessors, regLog, pc, op, call, ret>>

-----------------------------------------------------------------------------
(* Bounds of the model *)

\* registrations (RegisterMatcher + RegisterProcessor) made in one behaviour
MaxRegs == 2
\* length of the longest buffer or stream offered, beyond the sniffing window
MaxInputLen == 513

-----------------------------------------------------------------------------
(* Bytes *)

RECURSIVE BitAnd(_, _)
\* data[i] & mask on two bytes
BitAnd(a, b) ==
    IF a = 0 \/ b = 0 THEN 0
    ELSE (a % 2) * (b % 2) + 2 * BitAnd(a \div 2, b \div 2)

Min(a, b) == IF a < b THEN a ELSE b
Max(a, b) == IF a > b THEN a ELSE b

\* a prefix test that compares only the bytes data holds
HasPrefixAvailable(data, sig) ==
    LET n == Min(Len(data), Len(sig))
    IN SubSeq(data, 1, n) = SubSeq(sig, 1, n)

\* bytes.HasPrefix
HasPrefix(data, sig) ==
    /\ Len(data) >= Len(sig)
    /\ SubSeq(data, 1, Len(sig)) = sig

\* bytes.Contains
Contains(data, sub) ==
    \E i \in 0..(Len(data) - Len(sub)) : SubSeq(data, i + 1, i + Len(sub)) = sub

\* n zero bytes
Zeros(n) == [i \in 1..n |-> 0]

\* byte strings of the source
bRIFF     == <<82, 73, 70, 70>>
bFtyp     == <<102, 116, 121, 112>>
bMp4      == <<109, 112, 52>>
bEBML     == <<26, 69, 223, 163>>
bWebm     == <<119, 101, 98, 109>>
bMatroska == <<109, 97, 116, 114, 111, 115, 107, 97>>

-----------------------------------------------------------------------------
(* The matchers *)

\* what a Match call yields: the two strings it returns, the exclusive upper
\* end of the indices of data it read or tried to read, and whether such a
\* read was out of range (a run-time panic in Go)
Result(mime, ext, rd, panic) ==
    [mime |-> mime, ext |-> ext, rd |-> rd, panic |-> panic]

ExactSig(ext, mime, sig) ==
    [kind |-> "exactSig", ext |-> ext, mime |-> mime, sig |-> sig,
     mask |-> <<>>, pat |-> <<>>]

MaskedSig(ext, mime, mask, pat) ==
    [kind |-> "maskedSig", ext |-> ext, mime |-> mime, sig |-> <<>>,
     mask |-> mask, pat |-> pat]

WebmOrMKVSig ==
    [kind |-> "webmOrMKVSig", ext |-> "", mime |-> "", sig |-> <<>>,
     mask |-> <<>>, pat |-> <<>>]

Mp4Sig ==
    [kind |-> "mp4Sig", ext |-> "", mime |-> "", sig |-> <<>>,
     mask |-> <<>>, pat |-> <<>>]

\* var matchers = []Matcher{...}
BuiltinMatchers == <<
    ExactSig("jpg", "image/jpeg", <<255, 216, 255>>),
    ExactSig("png", "image/png", <<137, 80, 78, 71, 13, 10, 26, 10>>),
    ExactSig("gif", "image/gif", <<71, 73, 70, 56, 55, 97>>),
    ExactSig("gif", "image/gif", <<71, 73, 70, 56, 57, 97>>),
    MaskedSig("webp", "image/webp",
              <<255, 255, 255, 255, 0, 0, 0, 0, 255, 255, 255, 255, 255, 255>>,
              bRIFF \o Zeros(4) \o <<87, 69, 66, 80, 86, 80>>),
    MaskedSig("ogg", "application/ogg",
              <<79, 103, 103, 83, 0>>,
              <<79, 103, 103, 83, 0>>),
    WebmOrMKVSig,
    ExactSig("pdf", "application/pdf", <<37, 80, 68, 70, 45>>),
    MaskedSig("mp3", "audio/mpeg", <<255, 255, 255>>, <<73, 68, 51>>),
    Mp4Sig,
    ExactSig("aac", "audio/aac", <<195, 191, 195, 177>>),
    ExactSig("aac", "audio/aac", <<195, 191, 195, 185>>),
    ExactSig("bmp", "image/bmp", <<66, 77>>),
    MaskedSig("wav", "audio/wave",
              <<255, 255, 255, 255, 0, 0, 0, 0, 255, 255, 255, 255>>,
              bRIFF \o Zeros(4) \o <<87, 65, 86, 69>>),
    MaskedSig("avi", "video/avi",
              <<255, 255, 255, 255, 0, 0, 0, 0, 255, 255, 255, 255>>,
              bRIFF \o Zeros(4) \o <<65, 86, 73, 32>>),
    ExactSig("psd", "image/photoshop", <<56, 66, 80, 83>>),
    ExactSig("flac", "audio/x-flac", <<102, 76, 97, 67>>),
    ExactSig("tiff", "image/tiff", <<73, 73, 42, 0>>),
    ExactSig("tiff", "image/tiff", <<77, 77, 0, 42>>),
    ExactSig("mov", "video/quicktime", <<0, 0, 0, 20>> \o bFtyp),
    ExactSig("wmv", "video/x-ms-wmv",
             <<48, 38, 178, 117, 142, 102, 207, 17, 166, 217>>),
    ExactSig("flv", "video/x-flv", <<70, 76, 86, 1>>),
    ExactSig("ico", "image/x-icon", <<0, 0, 1, 0>>),
    MaskedSig("midi", "audio/midi",
              <<255, 255, 255, 255, 255, 255, 255, 255>>,
              <<77, 84, 104, 100, 0, 0, 0, 6>>) >>

\* func (e *exactSig) Match
ExactMatch(e, data) ==
    IF HasPrefix(data, e.sig)
    THEN Result(e.mime, e.ext, Len(e.sig), FALSE)
    ELSE Result("", "", Min(Len(data), Len(e.sig)), FALSE)

RECURSIVE MaskedLoop(_, _, _)
\* the for loop of maskedSig.Match, at Go index i
MaskedLoop(m, data, i) ==
    IF i >= Len(m.mask) THEN Result(m.mime, m.ext, i, FALSE)
    ELSE IF i >= Len(data) \/ i >= Len(m.pat) THEN Result("", "", i + 1, TRUE)
    ELSE IF BitAnd(data[i + 1], m.mask[i + 1]) # m.pat[i + 1]
         THEN Result("", "", i + 1, FALSE)
    ELSE MaskedLoop(m, data, i + 1)

\* maskedSig.Match with its length test left out
MaskedMatchUnguarded(m, data) == MaskedLoop(m, data, 0)

\* func (m *maskedSig) Match
MaskedMatch(m, data) ==
    IF Len(data) < Len(m.mask) THEN Result("", "", 0, FALSE)
    ELSE MaskedLoop(m, data, 0)

\* func (webmOrMKVSig) Match
WebmOrMKVMatch(data) ==
    IF Len(data) < 8 \/ ~HasPrefix(data, bEBML)
    THEN Result("", "", Min(Len(data), 4), FALSE)
    ELSE IF Len(data) < 4 THEN Result("", "", 4, TRUE)
    ELSE IF Contains(SubSeq(data, 5, Len(data)), bWebm)
         THEN Result("video/webm", "webm", Len(data), FALSE)
    ELSE IF Contains(SubSeq(data, 5, Len(data)), bMatroska)
         THEN Result("video/x-matroska", "mkv", Len(data), FALSE)
    ELSE Result("", "", Len(data), FALSE)

\* int(binary.BigEndian.Uint32(data[:4])).  The value is only compared with
\* len(data) <= 512 and reduced modulo 4, so every value of 2^16 or more is
\* represented by 2^16 plus its low 16 bits: the order against any length
\* and the residue modulo 4 are those of the 32-bit value.
BoxSize(data) ==
    LET hi == data[1] * 256 + data[2]
        lo == data[3] * 256 + data[4]
    IN IF hi = 0 THEN lo ELSE 65536 + lo

RECURSIVE Mp4WalkSkipNone(_, _, _, _)
\* the chunk walk of mp4Sig.Match without the skip of the chunk at 12
Mp4WalkSkipNone(data, boxSize, st, rd) ==
    IF st >= boxSize THEN Result("", "", rd, FALSE)
    ELSE IF st + 3 > Len(data) THEN Result("", "", st + 3, TRUE)
    ELSE IF SubSeq(data, st + 1, st + 3) = bMp4
         THEN Result("video/mp4", "mp4", st + 3, FALSE)
    ELSE Mp4WalkSkipNone(data, boxSize, st + 4, st + 3)

RECURSIVE Mp4Walk(_, _, _, _)
\* for st := 8; st < boxSize; st += 4 {...} of mp4Sig.Match; rd is the
\* exclusive end of what the walk has read so far
Mp4Walk(data, boxSize, st, rd) ==
    IF st >= boxSize THEN Result("", "", rd, FALSE)
    ELSE IF st = 12 THEN Mp4Walk(data, boxSize, st + 4, rd)
    ELSE IF st + 3 > Len(data) THEN Result("", "", st + 3, TRUE)
    ELSE IF SubSeq(data, st + 1, st + 3) = bMp4
         THEN Result("video/mp4", "mp4", st + 3, FALSE)
    ELSE Mp4Walk(data, boxSize, st + 4, st + 3)

\* func (mp4Sig) Match
Mp4Match(data) ==
    IF Len(data) < 12 THEN Result("", "", 0, FALSE)
    ELSE LET boxSize == BoxSize(data)
             nope == \/ boxSize % 4 # 0
                     \/ Len(data) < boxSize
                     \/ SubSeq(data, 5, 8) # bFtyp
         IN IF nope THEN Result("", "", 8, FALSE)
            ELSE LET w == Mp4Walk(data, boxSize, 8, 0)
                 IN Result(w.mime, w.ext, Max(8, w.rd), w.panic)

\* m.Match(buf): the dynamic dispatch over the Matcher interface
Match(m, data) ==
    CASE m.kind = "exactSig"     -> ExactMatch(m, data)
      [] m.kind = "maskedSig"    -> MaskedMatch(m, data)
      [] m.kind = "webmOrMKVSig" -> WebmOrMKVMatch(data)
      [] m.kind = "mp4Sig"       -> Mp4Match(data)

-----------------------------------------------------------------------------
(* Errors *)

NoErr == [kind |-> "nil", label |-> ""]

\* type UnsupportedMIMEError string
UnsupportedMIMEError(label) == [kind |-> "UnsupportedMIMEError", label |-> label]

\* what rs.Read may return as its error: end of stream, or a failed read
ErrEOF  == [kind |-> "io.EOF", label |-> ""]
ErrRead == [kind |-> "readError", label |-> ""]

\* func (u UnsupportedMIMEError) Error() string
ErrorString(e) == <<"unsupported MIME type: ", e.label>>

-----------------------------------------------------------------------------
(* detectMimeType *)

\* const size = 512
Size == 512

\* a []byte argument: the nil slice, or a slice of bytes
NilBuf == [isNil |-> TRUE, bytes |-> <<>>]
Buf(b) == [isNil |-> FALSE, bytes |-> b]

\* a map[string]bool argument: nil, or the keys mapped to true and to false
NilAccepted == [isNil |-> TRUE, t |-> {}, f |-> {}]
Accepted(t, f) == [isNil |-> FALSE, t |-> t, f |-> f]

\* accepted[mime]: a missing key reads as false
AcceptedLookup(accepted, mime) == mime \in accepted.t

\* the else branch of the acquisition without its truncation
TruncateBufNone(b) == b

\* if len(buf) > size { buf = buf[:size] }
TruncateBuf(b) == IF Len(b) > Size THEN SubSeq(b, 1, Size) ELSE b

\* buf = make([]byte, size); read, err = rs.Read(buf); buf = buf[:read]
\* rd is what the one Read call returned: rd.n bytes copied, error rd.err
ReadBuf(rs, rd) ==
    LET filled == SubSeq(rs, 1, rd.n) \o Zeros(Size - rd.n)
    IN IF rd.n < Size THEN SubSeq(filled, 1, rd.n) ELSE filled

\* the prefix acquisition of detectMimeType: the prefix, the error of the
\* read, and the number of Read calls made
Acquire(buf, rs, rd) ==
    IF buf.isNil
    THEN IF rd.err # NoErr
         THEN [prefix |-> <<>>, err |-> rd.err, reads |-> 1, handed |-> FALSE]
         ELSE [prefix |-> ReadBuf(rs, rd), err |-> NoErr, reads |-> 1,
               handed |-> TRUE]
    ELSE [prefix |-> TruncateBuf(buf.bytes), err |-> NoErr, reads |-> 0,
          handed |-> TRUE]

RECURSIVE MatchLoop(_, _, _, _, _)
\* for _, m := range matchers { mime, ext = m.Match(buf); if mime != "" { break } }
MatchLoop(ms, buf, i, mime, ext) ==
    IF i > Len(ms) THEN [mime |-> mime, ext |-> ext, panic |-> FALSE]
    ELSE LET r == Match(ms[i], buf)
         IN IF r.panic THEN [mime |-> "", ext |-> "", panic |-> TRUE]
            ELSE IF r.mime # "" THEN [mime |-> r.mime, ext |-> r.ext, panic |-> FALSE]
            ELSE MatchLoop(ms, buf, i + 1, r.mime, r.ext)

\* the switch with the sentinel in both failing cases
DetectErrSentinel(mime, accepted) ==
    IF mime = "" \/ (~accepted.isNil /\ ~AcceptedLookup(accepted, mime))
    THEN UnsupportedMIMEError("application/octet-stream")
    ELSE NoErr

\* switch { case mime == "": ...; case accepted != nil && !accepted[mime]: ... }
DetectErr(mime, accepted) ==
    IF mime = "" THEN UnsupportedMIMEError("application/octet-stream")
    ELSE IF ~accepted.isNil /\ ~AcceptedLookup(accepted, mime)
         THEN UnsupportedMIMEError(mime)
    ELSE NoErr

\* func detectMimeType(buf, rs, accepted) (mime, ext string, err error),
\* evaluated against the registry ms
DetectResult(ms, buf, rs, rd, accepted) ==
    LET a == Acquire(buf, rs, rd)
    IN IF a.err # NoErr
       THEN [mime |-> "", ext |-> "", err |-> a.err, prefix |-> a.prefix,
             handed |-> FALSE, reads |-> a.reads, panic |-> FALSE]
       ELSE LET r == MatchLoop(ms, a.prefix, 1, "", "")
            IN [mime |-> r.mime, ext |-> r.ext,
                err |-> IF r.panic THEN NoErr ELSE DetectErr(r.mime, accepted),
                prefix |-> a.prefix, handed |-> TRUE, reads |-> a.reads,
                panic |-> r.panic]

-----------------------------------------------------------------------------
(* processFile *)

\* the first case list without its last label
ImageMimesShort == {"image/jpeg", "image/png", "image/gif", "image/webp",
                    "application/pdf", "image/bmp", "image/photoshop",
                    "image/tiff"}

\* the three case lists of the switch in processFile
ImageMimes == {"image/jpeg", "image/png", "image/gif", "image/webp",
               "application/pdf", "image/bmp", "image/photoshop",
               "image/tiff", "image/x-icon"}
AudioMimes == {"audio/mpeg", "audio/aac", "audio/wave", "audio/x-flac",
               "audio/midi"}
VideoMimes == {"application/ogg", "video/webm", "video/x-matroska",
               "video/mp4", "video/avi", "video/quicktime",
               "video/x-ms-wmv", "video/x-flv"}

\* a nil Processor
NilProc == "nil"

\* mimeProcessors[mime]: a missing key reads as the nil func
ProcLookup(procs, mime) ==
    IF mime \in DOMAIN procs THEN procs[mime] ELSE NilProc

\* processFile with the switch tried before the override
ProcessResultCategoryFirst(procs, mime) ==
    IF mime \in ImageMimes THEN [invoked |-> "processImage", err |-> NoErr]
    ELSE IF mime \in AudioMimes THEN [invoked |-> "processAudio", err |-> NoErr]
    ELSE IF mime \in VideoMimes THEN [invoked |-> "processVideo", err |-> NoErr]
    ELSE IF ProcLookup(procs, mime) # NilProc
         THEN [invoked |-> ProcLookup(procs, mime), err |-> NoErr]
    ELSE [invoked |-> "none", err |-> UnsupportedMIMEError(mime)]

\* func processFile(src Source, opts Options): the function it hands the
\* source to, and the error processFile itself raises.  What the invoked
\* function returns is returned as it is.
ProcessResult(procs, mime) ==
    LET override == ProcLookup(procs, mime)
    IN IF override # NilProc THEN [invoked |-> override, err |-> NoErr]
       ELSE IF mime \in ImageMimes THEN [invoked |-> "processImage", err |-> NoErr]
       ELSE IF mime \in AudioMimes THEN [invoked |-> "processAudio", err |-> NoErr]
       ELSE IF mime \in VideoMimes THEN [invoked |-> "processVideo", err |-> NoErr]
       ELSE [invoked |-> "none", err |-> UnsupportedMIMEError(mime)]

-----------------------------------------------------------------------------
(* The inputs offered to the calls *)

\* b followed by zero bytes up to length n
PadTo(b, n) == b \o Zeros(n - Len(b))

\* short inputs: empty, shorter than four bytes, one per built-in signature,
\* near misses, and bytes no signature knows
ShortInputs == {
    <<>>, <<66>>, <<66, 77>>, <<66, 77, 54>>,
    <<255, 216, 255>>, <<255, 216>>, <<255, 216, 0>>, <<73, 68, 51>>,
    <<73, 68, 51, 4, 0>>, <<84, 88, 84>>,
    <<255, 216, 255, 224, 0, 16>>,
    <<137, 80, 78, 71, 13, 10, 26, 10, 0, 0, 0, 13>>,
    <<137, 80, 78, 71, 13, 10, 26>>,
    <<71, 73, 70, 56, 55, 97, 1>>, <<71, 73, 70, 56, 57, 97, 1>>,
    bRIFF \o <<36, 1, 2, 3>> \o <<87, 69, 66, 80, 86, 80, 56, 32>>,
    bRIFF \o <<36, 1, 2, 3>> \o <<87, 69, 66, 80>>,
    bRIFF \o <<0, 0, 0, 0>> \o <<87, 65, 86, 69, 102>>,
    bRIFF \o <<255, 7, 0, 0>> \o <<65, 86, 73, 32>>,
    <<79, 103, 103, 83, 0, 2>>, <<79, 103, 103, 83>>, <<79, 103, 103, 83, 1>>,
    <<111, 103, 103, 115, 0>>, <<255, 255, 255, 255, 7>>,
    <<79, 103, 103, 82, 0>>,
    bEBML \o Zeros(4) \o bWebm,
    bEBML \o Zeros(4) \o bMatroska,
    bEBML \o bMatroska \o bWebm,
    bEBML \o bWebm,
    bEBML \o <<119, 101, 98>>,
    bEBML \o Zeros(8),
    Zeros(4) \o bWebm \o bMatroska,
    <<37, 80, 68, 70, 45, 49>>,
    <<195, 191, 195, 177>>, <<195, 191, 195, 185>>, <<255, 241, 80, 128>>,
    <<56, 66, 80, 83, 0, 1>>, <<102, 76, 97, 67>>,
    <<73, 73, 42, 0>>, <<77, 77, 0, 42>>,
    <<0, 0, 0, 20>> \o bFtyp \o <<113, 116, 32, 32>> \o Zeros(8),
    <<48, 38, 178, 117, 142, 102, 207, 17, 166, 217, 0>>,
    <<70, 76, 86, 1>>, <<0, 0, 1, 0>>,
    <<77, 84, 104, 100, 0, 0, 0, 6>>, <<77, 84, 104, 100, 0, 0, 0, 7>>,
    <<1, 2, 3, 4, 5, 6, 7, 8, 9, 10>> }

\* inputs that fill the sniffing window or run past it
LongInputs == {
    PadTo(<<137, 80, 78, 71, 13, 10, 26, 10>>, Size),
    PadTo(<<137, 80, 78, 71, 13, 10, 26, 10>>, MaxInputLen),
    PadTo(<<1, 2, 3, 4, 5, 6, 7, 8, 9, 10>>, MaxInputLen),
    PadTo(bEBML, Size - 4) \o bWebm,
    PadTo(bEBML, Size - 3) \o bWebm,
    PadTo(bEBML, MaxInputLen - 4) \o bWebm,
    PadTo(bEBML, Size - 8) \o bMatroska \o bWebm }

\* an ftyp-like box: the declared size as four big-endian bytes, the tag,
\* then the chunks at offsets 8, 12, 16 and 20, "mp42" at offset at (if any)
\* and "isom" elsewhere, cut to len bytes
Mp4Box(sizeBytes, tag, at, len) ==
    LET chunk(k) == IF k = at THEN <<109, 112, 52, 50>>
                    ELSE <<105, 115, 111, 109>>
    IN SubSeq(sizeBytes \o tag \o chunk(8) \o chunk(12) \o chunk(16) \o chunk(20),
              1, len)

Mp4Inputs ==
    { Mp4Box(<<0, 0, 0, s>>, bFtyp, at, len) :
        s \in {12, 16, 18, 20, 24, 28}, at \in {8, 12, 16, 20}, len \in {16, 24} }
    \cup { Mp4Box(<<0, 0, 0, 24>>, <<102, 116, 121, 113>>, 8, 24),
           Mp4Box(<<0, 0, 0, 24>>, bFtyp, 0, 24),
           Mp4Box(<<0, 0, 0, 24>>, bFtyp, 8, 11),
           Mp4Box(<<0, 0, 0, 12>>, bFtyp, 8, 12),
           Mp4Box(<<0, 0, 0, 8>>, bFtyp, 8, 24),
           Mp4Box(<<0, 0, 0, 0>>, bFtyp, 8, 24),
           Mp4Box(<<1, 0, 0, 24>>, bFtyp, 8, 24),
           Mp4Box(<<0, 1, 0, 24>>, bFtyp, 8, 24),
           Mp4Box(<<255, 255, 255, 252>>, bFtyp, 8, 24),
           Mp4Box(<<0, 0, 1, 24>>, bFtyp, 8, 24) }

Inputs == ShortInputs \cup LongInputs \cup Mp4Inputs

\* the streams offered: empty, short, matching, and longer than the window
StreamInputs == {
    <<>>, <<66, 77>>, <<255, 216, 255, 224, 0, 16>>,
    <<111, 103, 103, 115, 0>>,
    <<1, 2, 3, 4, 5, 6, 7, 8, 9, 10>>,
    Mp4Box(<<0, 0, 0, 24>>, bFtyp, 16, 24),
    PadTo(<<137, 80, 78, 71, 13, 10, 26, 10>>, MaxInputLen),
    PadTo(bEBML, Size - 4) \o bWebm }

\* what one rs.Read(buf) with len(buf) = size may return on a stream holding
\* rs: n bytes copied, 0 <= n <= min(len(rs), size), with no error, with
\* io.EOF once the stream is exhausted, or with a failure of the read
ReadOutcomes(rs) ==
    { [n |-> n, err |-> e] :
        n \in {0, Min(3, Len(rs)), Min(Len(rs), Size)},
        e \in {NoErr, ErrEOF, ErrRead} }
    \ { [n |-> n, err |-> ErrEOF] : n \in 0..(Len(rs) - 1) }

\* the (buf, rs) pairs detectMimeType is called with, with the outcome of
\* the read where a stream is passed
DetectArgs ==
    { [buf |-> Buf(b), rs |-> <<>>, rd |-> [n |-> 0, err |-> NoErr]] : b \in Inputs }
    \cup UNION { { [buf |-> NilBuf, rs |-> s, rd |-> r] : r \in ReadOutcomes(s) } :
                 s \in StreamInputs }

\* the accepted maps passed: none, an empty one, one allowing png and
\* holding jpeg as false
AcceptedArgs == { NilAccepted, Accepted({}, {}),
                  Accepted({"image/png"}, {"image/jpeg"}) }

\* matchers a caller registers: one whose signature is a prefix of the jpeg
\* one, one matching whatever starts with 0xFF
ExtraMatchers == { ExactSig("jpe", "image/x-custom", <<255, 216>>),
                   ExactSig("txt", "text/plain", <<255>>) }

\* processors a caller registers (nil is a func value too) and the labels
\* they are registered for
Processors == {"overrideA", "overrideB", NilProc}
OverrideMimes == {"image/png", "text/plain"}

\* the labels of every built-in matcher
BuiltinMimes ==
    { BuiltinMatchers[i].mime :
        i \in { j \in 1..Len(BuiltinMatchers) :
                  BuiltinMatchers[j].kind \in {"exactSig", "maskedSig"} } }
    \cup {"video/webm", "video/x-matroska", "video/mp4"}

\* the labels processFile is called with
SourceMimes == BuiltinMimes \cup {"text/plain", "image/x-custom",
                                  "application/octet-stream", ""}

-----------------------------------------------------------------------------
(* The state machine *)

None == [none |-> TRUE]

\* the registrations made so far
Regs == (Len(matchers) - Len(BuiltinMatchers)) + Len(regLog)

Init ==
    /\ matchers = BuiltinMatchers
    /\ mimeProcessors = [k \in {} |-> NilProc]
    /\ regLog = <<>>
    /\ pc = "ready"
    /\ op = "none"
    /\ call = None
    /\ ret = None

\* RegisterMatcher with the new matcher put first
RegisterMatcherFront(ms, m) == <<m>> \o ms

\* matchers = append(matchers, m)
RegisterMatcherAppend(ms, m) == Append(ms, m)

\* func RegisterMatcher(m Matcher)
RegisterMatcher(m) ==
    /\ pc = "ready"
    /\ Regs < MaxRegs
    /\ matchers' = RegisterMatcherAppend(matchers, m)
    /\ UNCHANGED <<mimeProcessors, regLog, pc, op, call, ret>>

\* mimeProcessors[mime] = fn
MapStore(procs, mime, fn) ==
    [k \in DOMAIN procs \cup {mime} |-> IF k = mime THEN fn ELSE procs[k]]

\* func RegisterProcessor(mime string, fn Processor)
RegisterProcessor(mime, fn) ==
    /\ pc = "ready"
    /\ Regs < MaxRegs
    /\ mimeProcessors' = MapStore(mimeProcessors, mime, fn)
    /\ regLog' = Append(regLog, <<mime, fn>>)
    /\ UNCHANGED <<matchers, pc, op, call, ret>>

\* a call of detectMimeType(buf, rs, accepted), from entry to return; rd is
\* the outcome of the read of rs
DetectMimeType(buf, rs, rd, accepted) ==
    /\ pc = "ready"
    /\ op' = "detectMimeType"
    /\ call' = [buf |-> buf, rs |-> rs, rd |-> rd, accepted |-> accepted]
    /\ ret' = DetectResult(matchers, buf, rs, rd, accepted)
    /\ pc' = "returned"
    /\ UNCHANGED <<matchers, mimeProcessors, regLog>>

\* a call of processFile on a source whose Mime field is mime
ProcessFile(mime) ==
    /\ pc = "ready"
    /\ op' = "processFile"
    /\ call' = [mime |-> mime]
    /\ ret' = ProcessResult(mimeProcessors, mime)
    /\ pc' = "returned"
    /\ UNCHANGED <<matchers, mimeProcessors, regLog>>

\* the caller takes the values returned; the registries stay as they are
Return ==
    /\ pc = "returned"
    /\ pc' = "ready"
    /\ op' = "none"
    /\ call' = None
    /\ ret' = None
    /\ UNCHANGED <<matchers, mimeProcessors, regLog>>

Next ==
    \/ \E m \in ExtraMatchers : RegisterMatcher(m)
    \/ \E mime \in OverrideMimes, fn \in Processors : RegisterProcessor(mime, fn)
    \/ \E a \in DetectArgs, acc \in AcceptedArgs :
           DetectMimeType(a.buf, a.rs, a.rd, acc)
    \/ \E mime \in SourceMimes : ProcessFile(mime)
    \/ Return

Spec == Init /\ [][Next]_vars

-----------------------------------------------------------------------------
(* Properties *)

Sentinel == "application/octet-stream"

\* a call of detectMimeType has returned after handing a prefix to the matchers
Detected == pc = "returned" /\ op = "detectMimeType" /\ ret.handed

\* a call of processFile has returned
Dispatched == pc = "returned" /\ op = "processFile"

\* the entries of ms that match data
MatchingEntries(ms, data) ==
    { i \in 1..Len(ms) : Match(ms[i], data).mime # "" }

\* the lowest-indexed entry of ms that matches data, 0 if none does
FirstMatching(ms, data) ==
    LET S == MatchingEntries(ms, data)
    IN IF S = {} THEN 0 ELSE CHOOSE i \in S : \A j \in S : i <= j

\* C1: when some matcher matches the prefix, detect fails with
\* UnsupportedType(matched label), never the sentinel, if an accepted map is
\* passed that does not hold the label as true; otherwise it succeeds with
\* the label and extension of the matcher that matched.
C1_AcceptSetFilter ==
    Detected =>
        LET i == FirstMatching(matchers, ret.prefix)
        IN i # 0 =>
            LET m == Match(matchers[i], ret.prefix)
            IN IF ~call.accepted.isNil /\ m.mime \notin call.accepted.t
               THEN /\ ret.err = UnsupportedMIMEError(m.mime)
                    /\ ret.err.label # Sentinel
               ELSE /\ ret.err = NoErr
                    /\ ret.mime = m.mime
                    /\ ret.ext = m.ext

\* a jpeg was detected and refused by an accepted map that holds png only
C1_Witness ==
    /\ Detected
    /\ call.accepted = Accepted({"image/png"}, {"image/jpeg"})
    /\ ret.mime = "image/jpeg"
    /\ ret.err = UnsupportedMIMEError("image/jpeg")

\* C2: every failure detect returns, from a buffer or from a stream, is an
\* UnsupportedType whose label is the sentinel or the matched label.
C2_SingleErrorKind ==
    (pc = "returned" /\ op = "detectMimeType" /\ ret.err # NoErr) =>
        /\ ret.err.kind = "UnsupportedMIMEError"
        /\ ret.err.label \in {Sentinel, ret.mime}

\* C3 as stated: with the built-in registry, a prefix of fewer than four
\* bytes matches no matcher and detect fails with the sentinel.
C3_ShortInputUnmatched ==
    (Detected /\ matchers = BuiltinMatchers /\ Len(ret.prefix) < 4) =>
        /\ MatchingEntries(BuiltinMatchers, ret.prefix) = {}
        /\ ret.err = UnsupportedMIMEError(Sentinel)

\* the prefixes of fewer than four bytes that a built-in signature covers:
\* "BM" and whatever follows it, FF D8 FF, "ID3"
ShortSignature(p) ==
    \/ HasPrefix(p, <<66, 77>>)
    \/ p = <<255, 216, 255>>
    \/ p = <<73, 68, 51>>

\* C3, amended: with the built-in registry, a prefix of fewer than four bytes
\* handed to the matchers matches no matcher and detect fails with the
\* sentinel, unless it starts with "BM" or is FF D8 FF or "ID3", which are
\* labelled image/bmp, image/jpeg and audio/mpeg.
C3_ShortPrefixes ==
    (Detected /\ matchers = BuiltinMatchers /\ Len(ret.prefix) < 4) =>
        IF ShortSignature(ret.prefix)
        THEN ret.mime = (IF HasPrefix(ret.prefix, <<66, 77>>) THEN "image/bmp"
                         ELSE IF ret.prefix = <<255, 216, 255>> THEN "image/jpeg"
                         ELSE "audio/mpeg")
        ELSE /\ MatchingEntries(BuiltinMatchers, ret.prefix) = {}
             /\ ret.mime = ""
             /\ ret.err = UnsupportedMIMEError(Sentinel)

\* a two-byte prefix that is no signature was refused with the sentinel
C3_Witness ==
    /\ Detected
    /\ matchers = BuiltinMatchers
    /\ ret.prefix = <<255, 216>>
    /\ ret.err = UnsupportedMIMEError(Sentinel)

\* detect returns the pair of the lowest-indexed matching entry
C4_FirstMatchWins ==
    Detected =>
        LET i == FirstMatching(matchers, ret.prefix)
        IN IF i = 0 THEN ret.mime = ""
           ELSE /\ ret.mime = Match(matchers[i], ret.prefix).mime
                /\ ret.ext = Match(matchers[i], ret.prefix).ext

\* a registration appends, and what an entry matched before is classified
\* the same after
C4_RegistrationKeeps ==
    matchers' # matchers =>
        /\ Len(matchers') = Len(matchers) + 1
        /\ SubSeq(matchers', 1, Len(matchers)) = matchers
        /\ \A b \in Inputs :
              LET rd0 == [n |-> 0, err |-> NoErr]
                  before == DetectResult(matchers, Buf(b), <<>>, rd0, NilAccepted)
                  after == DetectResult(matchers', Buf(b), <<>>, rd0, NilAccepted)
              IN before.mime # "" =>
                    /\ after.mime = before.mime
                    /\ after.ext = before.ext

\* C4: first match in registration order wins and RegisterMatcher only
\* appends: detect returns the label and extension of the lowest-indexed
\* matching entry, the entries present keep their order, and a prefix some
\* entry matched before a registration is classified the same after it.
C4_RegistrationOrder == []C4_FirstMatchWins /\ [][C4_RegistrationKeeps]_vars

\* after a registration, a prefix that a registered matcher matches as well
\* was given the label of the built-in one
C4_Witness ==
    /\ Detected
    /\ Len(matchers) > Len(BuiltinMatchers)
    /\ ret.mime = "image/jpeg"
    /\ \E i \in MatchingEntries(matchers, ret.prefix) : i > Len(BuiltinMatchers)

\* C5: the prefix handed to the matchers is at most 512 bytes long: the
\* first min(n, 512) bytes of a buffer of n bytes, or for a stream the bytes
\* that its one read call returned.
C5_PrefixWindow ==
    (pc = "returned" /\ op = "detectMimeType") =>
        /\ ret.reads = (IF call.buf.isNil THEN 1 ELSE 0)
        /\ ret.handed =>
            /\ Len(ret.prefix) <= Size
            /\ ~call.buf.isNil =>
                 ret.prefix = SubSeq(call.buf.bytes, 1,
                                     Min(Len(call.buf.bytes), Size))
            /\ call.buf.isNil =>
                 ret.prefix = SubSeq(call.rs, 1, call.rd.n)

\* a buffer longer than the window was cut to the window
C5_Witness ==
    /\ Detected
    /\ ~call.buf.isNil
    /\ Len(call.buf.bytes) > Size
    /\ Len(ret.prefix) = Size

RECURSIVE LastRegistered(_, _, _)
\* the processor of the latest of the first n RegisterProcessor calls that
\* names mime; nil if none does
LastRegistered(log, n, mime) ==
    IF n = 0 THEN NilProc
    ELSE IF log[n][1] = mime THEN log[n][2]
    ELSE LastRegistered(log, n - 1, mime)

\* the resolution order of a dispatch
C6_Resolution ==
    Dispatched =>
        LET fn == LastRegistered(regLog, Len(regLog), call.mime)
        IN IF fn # NilProc THEN ret = [invoked |-> fn, err |-> NoErr]
           ELSE IF call.mime \in ImageMimes
                THEN ret = [invoked |-> "processImage", err |-> NoErr]
           ELSE IF call.mime \in AudioMimes
                THEN ret = [invoked |-> "processAudio", err |-> NoErr]
           ELSE IF call.mime \in VideoMimes
                THEN ret = [invoked |-> "processVideo", err |-> NoErr]
           ELSE ret = [invoked |-> "none",
                       err |-> UnsupportedMIMEError(call.mime)]

\* a registration for one label leaves the resolution of the others alone
C6_OthersKept ==
    regLog' # regLog =>
        \A l \in SourceMimes \ {regLog'[Len(regLog')][1]} :
            ProcessResult(mimeProcessors', l) = ProcessResult(mimeProcessors, l)

\* C6: dispatch on label L invokes the override registered last for L if
\* there is one, even when L is in a category; otherwise the handler of
\* L's category; otherwise it fails with UnsupportedType(L).  Registering
\* an override for L changes the resolution of no other label.
C6_DispatchOrder == []C6_Resolution /\ [][C6_OthersKept]_vars

\* a label of the image category went to the second of two overrides
\* registered for it
C6_Witness ==
    /\ Dispatched
    /\ call.mime \in ImageMimes
    /\ \E i, j \in 1..Len(regLog) :
          /\ i < j
          /\ regLog[i][1] = call.mime
          /\ regLog[j][1] = call.mime
          /\ regLog[i][2] \notin {NilProc, regLog[j][2]}
          /\ regLog[j][2] # NilProc
          /\ ret.invoked = regLog[j][2]

\* C7: on every prefix no built-in matcher reads at or beyond the length of
\* the prefix or of its own pattern; the MP4 chunk walk stays within
\* min(box size, prefix length); every masked signature has a pattern at
\* least as long as its mask.
C7_NoOutOfRangeRead ==
    Detected =>
        /\ ~ret.panic
        /\ \A i \in 1..Len(BuiltinMatchers) :
              LET m == BuiltinMatchers[i]
                  r == Match(m, ret.prefix)
              IN /\ ~r.panic
                 /\ r.rd <= Len(ret.prefix)
                 /\ m.kind = "exactSig" => r.rd <= Len(m.sig)
                 /\ m.kind = "maskedSig" =>
                       /\ r.rd <= Len(m.mask)
                       /\ Len(m.pat) >= Len(m.mask)
                 /\ (m.kind = "mp4Sig" /\ Len(ret.prefix) >= 12) =>
                       r.rd <= Max(8, Min(BoxSize(ret.prefix), Len(ret.prefix)))

\* an ftyp box declaring more bytes than the prefix holds was looked at
C7_Witness ==
    /\ Detected
    /\ Len(ret.prefix) >= 12
    /\ SubSeq(ret.prefix, 5, 8) = bFtyp
    /\ BoxSize(ret.prefix) % 4 = 0
    /\ BoxSize(ret.prefix) > Len(ret.prefix)

\* the condition of C8 on a prefix d: S is the 32-bit big-endian value of
\* d[0:4]; S <= len(d) <= 512 forces its two high bytes to be zero
Mp4Condition(d) ==
    /\ Len(d) >= 12
    /\ d[4] % 4 = 0
    /\ d[1] = 0 /\ d[2] = 0 /\ d[3] * 256 + d[4] <= Len(d)
    /\ <<d[5], d[6], d[7], d[8]>> = <<102, 116, 121, 112>>
    /\ \E k \in {8} \cup {16 + 4 * j : j \in 0..(Size \div 4)} :
          /\ k < d[3] * 256 + d[4]
          /\ <<d[k + 1], d[k + 2], d[k + 3]>> = <<109, 112, 52>>

\* C8: the MP4 matcher returns video/mp4 exactly when the prefix has 12
\* bytes or more, the box size S is a multiple of 4 not above the prefix
\* length, bytes [4:8] are "ftyp", and some offset k in {8, 16, 20, ...}
\* below S holds "mp4"; the chunk at offset 12 is never looked at.
C8_Mp4Match ==
    Detected =>
        /\ Mp4Match(ret.prefix).mime = "video/mp4" <=> Mp4Condition(ret.prefix)
        /\ Mp4Match(ret.prefix).mime \in {"", "video/mp4"}
        /\ matchers = BuiltinMatchers =>
              (ret.mime = "video/mp4" <=> Mp4Condition(ret.prefix))

\* a box was matched by a brand behind the skipped chunk
C8_Witness ==
    /\ Detected
    /\ ret.mime = "video/mp4"
    /\ SubSeq(ret.prefix, 9, 11) # bMp4
    /\ SubSeq(ret.prefix, 17, 19) = bMp4

\* C9: with the built-in registry a prefix is labelled application/ogg
\* only if its first four bytes are "OggS".
C9_OggSignature ==
    (Detected /\ matchers = BuiltinMatchers /\ ret.mime = "application/ogg") =>
        /\ Len(ret.prefix) >= 4
        /\ SubSeq(ret.prefix, 1, 4) = <<79, 103, 103, 83>>

\* C10: every label a built-in matcher returns is in exactly one of the
\* three categories, so with the built-in registry the label of a detect is
\* never refused by processFile, which refuses only labels that no built-in
\* matcher returns.
C10_DetectDispatchAgree ==
    /\ \A l \in BuiltinMimes :
          Cardinality({ c \in {ImageMimes, AudioMimes, VideoMimes} : l \in c }) = 1
    /\ (Detected /\ matchers = BuiltinMatchers /\ ret.mime # "") =>
          /\ ret.mime \in BuiltinMimes
          /\ ProcessResult(mimeProcessors, ret.mime).err = NoErr
    /\ (Dispatched /\ ret.err # NoErr) => call.mime \notin BuiltinMimes

\* an icon was detected by the built-in registry, the last label of the
\* image category
C10_Witness ==
    /\ Detected
    /\ matchers = BuiltinMatchers
    /\ ret.err = NoErr
    /\ ret.mime = "image/x-icon"
    /\ ProcessResult(mimeProcessors, ret.mime).invoked = "processImage"

====
